---- MODULE Spec2Model ----
(***************************************************************************)
(* Model of the typing test: the Line engine (src/src/line.rs) and the     *)
(* session controller TypingTest (src/src/main.rs).                        *)
(*                                                                         *)
(* A string is a sequence of characters; a character is a one-character    *)
(* string.  An Option<T> is a sequence of length at most one: <<>> is      *)
(* None and <<v>> is Some(v).                                              *)
(***************************************************************************)
EXTENDS Integers, Sequences, FiniteSets, TLC

\* ------------------------------------------------------------------------
\* Program constants
\* ------------------------------------------------------------------------

\* const LINE_LEN: usize = 10
LINE_LEN == 10

\* ------------------------------------------------------------------------
\* Bounds of the model
\* ------------------------------------------------------------------------

\* at most MaxOver characters are typed beyond the end of expected
MaxOver == 1
\* in time-limit mode, where neither a target nor a quote bounds the words
\* typed, the cumulative word count is followed up to MaxWordCount
MaxWordCount == 10
\* the clock is observed up to MaxClock seconds
MaxClock == 1

\* ------------------------------------------------------------------------
\* Characters and strings
\* ------------------------------------------------------------------------

SPACE == " "

\* a character whose UTF-8 encoding takes two bytes
WIDE == "é"

\* char::len_utf8 for the characters of the model
len_utf8(ch) == IF ch = WIDE THEN 2 ELSE 1

RECURSIVE byte_len(_)
\* String::len(): the length of a string in bytes
byte_len(s) == IF s = <<>> THEN 0 ELSE len_utf8(Head(s)) + byte_len(Tail(s))

\* the number of Unicode scalar values of a string (s.chars().count())
char_len(s) == Len(s)

Letters == <<"a", "b", "c", "d", "e", "f", "g", "h", "i", "j", "k", "l", "m",
             "n", "o", "p", "q", "r", "s", "t", "u", "v", "w", "x", "y", "z">>

RECURSIVE reduce_join(_, _)
reduce_join(acc, rest) ==
    IF rest = <<>> THEN acc
    ELSE reduce_join(acc \o <<SPACE>> \o Head(rest), Tail(rest))

\* join: x.reduce(|a, b| format!("{} {}", a, b)).unwrap_or_default()
join(x) == IF x = <<>> THEN <<>> ELSE reduce_join(Head(x), Tail(x))

RECURSIVE split_from(_, _, _)
split_from(s, cur, acc) ==
    IF s = <<>> THEN Append(acc, cur)
    ELSE IF Head(s) = SPACE THEN split_from(Tail(s), <<>>, Append(acc, cur))
    ELSE split_from(Tail(s), Append(cur, Head(s)), acc)

\* str::split(' '): the pieces between single spaces; "" gives one empty piece
split(s) == split_from(s, <<>>, <<>>)

\* Iterator::take(n)
take(x, n) == SubSeq(x, 1, IF Len(x) < n THEN Len(x) ELSE n)

\* what is left of the iterator after take(n)
rest_after(x, n) == SubSeq(x, (IF Len(x) < n THEN Len(x) ELSE n) + 1, Len(x))

\* ------------------------------------------------------------------------
\* Line engine
\* ------------------------------------------------------------------------

\* the word list (words.txt), cut down to two words
WORDS == << <<"a">>, <<"b">> >>

\* the picks of the random generator the model draws from: LINE_LEN indexes
\* into WORDS, alternating from either word
WordPicks ==
    { [i \in 1..LINE_LEN |-> ((i + k) % Len(WORDS)) + 1] : k \in 1..Len(WORDS) }

\* fn next_line(): LINE_LEN random words joined by single spaces
gen_next_line(f) == join([i \in 1..LINE_LEN |-> WORDS[f[i]]])

\* Line::new()
new(f) == [buffer |-> <<>>, expected |-> gen_next_line(f)]

\* the lines Line::new() can return
NewLines == { new(f) : f \in WordPicks }

\* from_quote() that drops the word after the ones it takes
from_quote_skips_word(string) ==
    LET it == split(string)
    IN  [line |-> [buffer |-> <<>>, expected |-> join(take(it, LINE_LEN))],
         string |-> join(rest_after(it, LINE_LEN + 1))]

\* Line::from_quote(string): the line, and the string as left behind
from_quote(string) ==
    LET it == split(string)
    IN  [line |-> [buffer |-> <<>>, expected |-> join(take(it, LINE_LEN))],
         string |-> join(rest_after(it, LINE_LEN))]

\* Line::empty()
empty == [buffer |-> <<>>, expected |-> <<>>]

\* Line::index()
index(l) == byte_len(l.buffer)

\* Line::done()
done(l) == index(l) >= byte_len(l.expected)

RECURSIVE word_count_loop(_, _, _, _, _)
word_count_loop(buffer, expected, i, word_correct, count) ==
    IF i > Len(buffer) THEN count
    ELSE IF i > Len(expected)
         THEN (IF word_correct THEN count + 1 ELSE count)
    ELSE LET boundary == expected[i] = SPACE
             count1 == IF boundary /\ word_correct THEN count + 1 ELSE count
             correct1 == IF boundary THEN TRUE ELSE word_correct
             correct2 == IF buffer[i] # expected[i] THEN FALSE ELSE correct1
         IN  word_count_loop(buffer, expected, i + 1, correct2, count1)

\* the loop of word_count() with the mismatch test placed before the
\* boundary test, so that a mistyped separator is forgotten at once
RECURSIVE word_count_loop_mismatch_first(_, _, _, _, _)
word_count_loop_mismatch_first(buffer, expected, i, word_correct, count) ==
    IF i > Len(buffer) THEN count
    ELSE IF i > Len(expected)
         THEN (IF word_correct THEN count + 1 ELSE count)
    ELSE LET boundary == expected[i] = SPACE
             count1 == IF boundary /\ word_correct THEN count + 1 ELSE count
             correct1 == IF buffer[i] # expected[i] THEN FALSE ELSE word_correct
             correct2 == IF boundary THEN TRUE ELSE correct1
         IN  word_count_loop_mismatch_first(buffer, expected, i + 1, correct2,
                                            count1)

\* word_count() over that loop
word_count_mismatch_first(l) ==
    word_count_loop_mismatch_first(l.buffer \o <<SPACE>>, l.expected, 1,
                                   TRUE, 0)

\* word_count() without the synthetic trailing space
word_count_no_sentinel(l) ==
    word_count_loop(l.buffer, l.expected, 1, TRUE, 0)

\* Line::word_count()
word_count(l) ==
    word_count_loop(l.buffer \o <<SPACE>>, l.expected, 1, TRUE, 0)

\* backspace() that removes the first character of the buffer
backspace_first(l) ==
    IF l.buffer = <<>> THEN l
    ELSE [l EXCEPT !.buffer = Tail(l.buffer)]

\* Line::backspace(): String::pop()
backspace(l) ==
    IF l.buffer = <<>> THEN l
    ELSE [l EXCEPT !.buffer = SubSeq(l.buffer, 1, Len(l.buffer) - 1)]

\* Line::add_char(ch): String::push(ch)
add_char(l, ch) == [l EXCEPT !.buffer = Append(l.buffer, ch)]

\* ------------------------------------------------------------------------
\* Inputs of a session
\* ------------------------------------------------------------------------

\* the text of the first k letters as one-letter words: "a b c ..."
words_text(k) == join([i \in 1..k |-> <<Letters[i]>>])

\* --number: targets of the word-count mode
WordTargets == {0, 2, 11}

\* --time: targets of the time-limit mode, in seconds
TimeTargets == {1}

\* ten words, the last two separated by two spaces
DoubleSpaced == words_text(9) \o <<SPACE, SPACE, "j">>

\* --custom-quote: the quotes a user passes
CustomQuotes == { words_text(k) : k \in {0, 5, 10, 12, 22} } \cup {DoubleSpaced}

\* the quotes random_quote() returns
RandomQuotes == { words_text(k) : k \in {3, 11} }

\* the keys a user hits where the expected character is not required
Keys == {"a", SPACE, WIDE}

\* the columns of a line at which the user may slip and hit any of Keys
ErrColumns == {1}

\* ------------------------------------------------------------------------
\* Session controller
\* ------------------------------------------------------------------------

VARIABLES
    running,          \* TypingTest.running
    show_final_score, \* TypingTest.show_final_score
    previous_line,    \* TypingTest.previous_line
    line,             \* TypingTest.line
    next_line,        \* TypingTest.next_line
    test_mode,        \* TypingTest.test_mode
    _word_count,      \* TypingTest._word_count
    instant,          \* TypingTest.instant: <<>> or <<the clock at the first character>>
    clock,            \* the monotonic clock Instant::now() reads, in seconds
    pc,               \* where run() is: "loop" or "exited"
    printed,          \* the final score run() printed: <<>> or <<the word count>>
    raw_mode,         \* whether the terminal is in raw mode
    rotated,          \* history: per rotated-out line since the last reset, its
                      \* expected and its word_count() when it was rotated out
    last_op           \* history: "reset" right after a reset, the Line
                      \* operation last applied when a Line is driven alone,
                      \* "new" at construction and "key" after any other event

vars == <<running, show_final_score, previous_line, line, next_line, test_mode,
          _word_count, instant, clock, pc, printed, raw_mode, rotated, last_op>>

\* the fields of TypingTest
session == <<running, show_final_score, previous_line, line, next_line,
             test_mode, _word_count, instant>>

\* enum TestMode
WordCount(words) == [kind |-> "WordCount", words |-> words]
TimeLimit(seconds) == [kind |-> "TimeLimit", seconds |-> seconds]
QuoteMode(remaining, custom) ==
    [kind |-> "QuoteMode", remaining |-> remaining, custom |-> custom]

\* TypingTest::word_count()
TypingTest_word_count == _word_count + word_count(line)

\* Instant::elapsed().as_secs() of the instant i
elapsed(i) == clock - i

\* f32 division n / d for n >= 0 and d >= 0: IEEE 754 gives NaN for 0 / 0
\* and infinity for n / 0 with n > 0
f32_div(n, d) ==
    IF d = 0
    THEN [kind |-> IF n = 0 THEN "NaN" ELSE "inf", num |-> n, den |-> d]
    ELSE [kind |-> "finite", num |-> n, den |-> d]

\* TypingTest::draw_score(): the numbers on the score line. time is 0f32
\* when the timer has not started and a positive reading of the clock
\* otherwise (den 0 with started stands for a positive fraction of a second)
draw_score ==
    LET started == instant # <<>>
        time == IF started THEN elapsed(instant[1]) ELSE 0
        wc == TypingTest_word_count
    IN  [started |-> started,
         time |-> time,
         words |-> wc,
         wpm |-> IF started
                 THEN [kind |-> "finite", num |-> wc * 60, den |-> time]
                 ELSE f32_div(wc * 60, time)]

\* the mode check with the current line's words left out of the total
mode_break_cumulative_only ==
    CASE test_mode.kind = "WordCount" -> _word_count >= test_mode.words
      [] test_mode.kind = "TimeLimit" ->
            instant # <<>> /\ elapsed(instant[1]) >= test_mode.seconds
      [] test_mode.kind = "QuoteMode" -> done(line) /\ done(next_line)

\* the mode check with the time counted from session creation until the
\* first character is typed
mode_break_from_creation ==
    CASE test_mode.kind = "WordCount" ->
            TypingTest_word_count >= test_mode.words
      [] test_mode.kind = "TimeLimit" ->
            elapsed(IF instant = <<>> THEN 0 ELSE instant[1]) >= test_mode.seconds
      [] test_mode.kind = "QuoteMode" -> done(line) /\ done(next_line)

\* the match on test_mode at the end of an iteration of run(): break or not
mode_break ==
    CASE test_mode.kind = "WordCount" ->
            TypingTest_word_count >= test_mode.words
      [] test_mode.kind = "TimeLimit" ->
            instant # <<>> /\ elapsed(instant[1]) >= test_mode.seconds
      [] test_mode.kind = "QuoteMode" ->
            done(line) /\ done(next_line)

\* the rest of an iteration of run() after kbin() when the terminal calls
\* succeed: the mode check, the loop condition and, once the loop is left,
\* disable_raw_mode() and the final score
end_of_iteration ==
    /\ pc' = IF mode_break' \/ ~running' THEN "exited" ELSE "loop"
    /\ raw_mode' = (pc' = "loop")
    /\ printed' = IF pc' = "exited" /\ show_final_score' /\ instant' # <<>>
                  THEN <<TypingTest_word_count'>>
                  ELSE <<>>

\* TypingTest::new(args), up to the first iteration of run()
Init ==
    /\ running = TRUE
    /\ show_final_score = TRUE
    /\ previous_line = empty
    /\ _word_count = 0
    /\ instant = <<>>
    /\ clock = 0
    /\ pc = "loop"
    /\ printed = <<>>
    /\ raw_mode = TRUE
    /\ rotated = <<>>
    /\ last_op = "new"
    /\ \/ /\ \E seconds \in TimeTargets : test_mode = TimeLimit(seconds)
          /\ line \in NewLines
          /\ next_line \in NewLines
       \/ /\ \E words \in WordTargets : test_mode = WordCount(words)
          /\ line \in NewLines
          /\ next_line \in NewLines
       \/ \E custom \in {<<>>} \cup { <<q>> : q \in CustomQuotes } :
          \E text \in (IF custom = <<>> THEN RandomQuotes ELSE {custom[1]}) :
             LET first == from_quote(text)
                 second == from_quote(first.string)
             IN  /\ line = first.line
                 /\ next_line = second.line
                 /\ test_mode = QuoteMode(second.string, custom)

\* get_next_line() without the swap: the new line is put in place of line
get_next_line_no_swap ==
    /\ test_mode.kind = "TimeLimit" =>
          _word_count + word_count(line) <= MaxWordCount
    /\ _word_count' = _word_count + word_count(line)
    /\ rotated' = Append(rotated, [expected |-> line.expected,
                                   count |-> word_count(line)])
    /\ previous_line' = line
    /\ UNCHANGED next_line
    /\ IF test_mode.kind = "QuoteMode"
       THEN LET got == from_quote(test_mode.remaining)
            IN  /\ line' = got.line
                /\ test_mode' = [test_mode EXCEPT !.remaining = got.string]
       ELSE /\ line' \in NewLines
            /\ UNCHANGED test_mode

\* get_next_line() with the words counted after the swap
get_next_line_count_after_swap ==
    /\ test_mode.kind = "TimeLimit" =>
          _word_count + word_count(line) <= MaxWordCount
    /\ _word_count' = _word_count + word_count(next_line)
    /\ rotated' = Append(rotated, [expected |-> line.expected,
                                   count |-> word_count(line)])
    /\ previous_line' = line
    /\ line' = next_line
    /\ IF test_mode.kind = "QuoteMode"
       THEN LET got == from_quote(test_mode.remaining)
            IN  /\ next_line' = got.line
                /\ test_mode' = [test_mode EXCEPT !.remaining = got.string]
       ELSE /\ next_line' \in NewLines
            /\ UNCHANGED test_mode

\* get_next_line() that takes the next line from the quote and does not
\* write the rest of the quote back
get_next_line_keep_remaining ==
    /\ test_mode.kind = "TimeLimit" =>
          _word_count + word_count(line) <= MaxWordCount
    /\ _word_count' = _word_count + word_count(line)
    /\ rotated' = Append(rotated, [expected |-> line.expected,
                                   count |-> word_count(line)])
    /\ previous_line' = line
    /\ line' = next_line
    /\ IF test_mode.kind = "QuoteMode"
       THEN /\ next_line' = from_quote(test_mode.remaining).line
            /\ UNCHANGED test_mode
       ELSE /\ next_line' \in NewLines
            /\ UNCHANGED test_mode

\* TypingTest::get_next_line()
get_next_line ==
    /\ test_mode.kind = "TimeLimit" =>
          _word_count + word_count(line) <= MaxWordCount
    /\ _word_count' = _word_count + word_count(line)
    /\ rotated' = Append(rotated, [expected |-> line.expected,
                                   count |-> word_count(line)])
    /\ previous_line' = line
    /\ line' = next_line
    /\ IF test_mode.kind = "QuoteMode"
       THEN LET got == from_quote(test_mode.remaining)
            IN  /\ next_line' = got.line
                /\ test_mode' = [test_mode EXCEPT !.remaining = got.string]
       ELSE /\ next_line' \in NewLines
            /\ UNCHANGED test_mode

\* the characters the model lets the user append to l
can_type(l, ch) ==
    LET pos == Len(l.buffer) + 1
    IN  /\ pos <= Len(l.expected) + MaxOver
        /\ \/ pos > Len(l.expected) /\ ch \in Keys
           \/ pos <= Len(l.expected) /\ pos \in ErrColumns /\ ch \in Keys
           \/ pos <= Len(l.expected) /\ ch = l.expected[pos]

\* every character a session can receive
Chars == Keys \cup { Letters[i] : i \in 1..Len(Letters) }

\* kbin() on KeyCode::Char(ch) rotating on any character once line is done
Char_rotate_when_done(ch) ==
    /\ pc = "loop"
    /\ instant' = IF instant = <<>> THEN <<clock>> ELSE instant
    /\ IF done(line)
       THEN get_next_line
       ELSE /\ can_type(line, ch)
            /\ line' = add_char(line, ch)
            /\ UNCHANGED <<previous_line, next_line, test_mode, _word_count,
                           rotated>>
    /\ last_op' = "key"
    /\ UNCHANGED <<running, show_final_score, clock>>
    /\ end_of_iteration

\* kbin() on KeyCode::Char(ch)
kbin_Char(ch) ==
    /\ instant' = IF instant = <<>> THEN <<clock>> ELSE instant
    /\ IF ch = SPACE /\ done(line)
       THEN get_next_line
       ELSE /\ can_type(line, ch)
            /\ line' = add_char(line, ch)
            /\ UNCHANGED <<previous_line, next_line, test_mode, _word_count,
                           rotated>>
    /\ last_op' = "key"
    /\ UNCHANGED <<running, show_final_score, clock>>

\* kbin() on KeyCode::Char(ch), then the rest of the iteration
Char(ch) ==
    /\ pc = "loop"
    /\ kbin_Char(ch)
    /\ end_of_iteration

\* Backspace that also removes the last character of the previous line
kbin_Backspace_both_lines ==
    /\ line' = backspace(line)
    /\ previous_line' = backspace(previous_line)
    /\ last_op' = "key"
    /\ UNCHANGED <<running, show_final_score, next_line,
                   test_mode, _word_count, instant, clock, rotated>>

\* kbin() on KeyCode::Backspace
kbin_Backspace ==
    /\ line' = backspace(line)
    /\ last_op' = "key"
    /\ UNCHANGED <<running, show_final_score, previous_line, next_line,
                   test_mode, _word_count, instant, clock, rotated>>

\* kbin() on KeyCode::Backspace, then the rest of the iteration
Backspace ==
    /\ pc = "loop"
    /\ kbin_Backspace
    /\ end_of_iteration

\* quit() that stops the loop and leaves the final score on
quit_keep_score ==
    /\ running' = FALSE
    /\ show_final_score' = show_final_score

\* TypingTest::quit()
quit ==
    /\ running' = FALSE
    /\ show_final_score' = FALSE

\* kbin() on KeyCode::Esc
kbin_Esc ==
    /\ quit
    /\ last_op' = "key"
    /\ UNCHANGED <<previous_line, line, next_line, test_mode, _word_count,
                   instant, clock, rotated>>

\* kbin() on KeyCode::Esc, then the rest of the iteration
Esc ==
    /\ pc = "loop"
    /\ kbin_Esc
    /\ end_of_iteration

\* reset() that rebuilds the lines from what is left of the quote
reset_keep_remaining ==
    /\ previous_line' = empty
    /\ _word_count' = 0
    /\ instant' = <<>>
    /\ rotated' = <<>>
    /\ IF test_mode.kind = "QuoteMode"
       THEN LET first == from_quote(test_mode.remaining)
                second == from_quote(first.string)
            IN  /\ line' = first.line
                /\ next_line' = second.line
                /\ test_mode' = [test_mode EXCEPT !.remaining = second.string]
       ELSE /\ line' \in NewLines
            /\ next_line' \in NewLines
            /\ UNCHANGED test_mode

\* TypingTest::reset()
reset ==
    /\ previous_line' = empty
    /\ _word_count' = 0
    /\ instant' = <<>>
    /\ rotated' = <<>>
    /\ IF test_mode.kind = "QuoteMode"
       THEN \E text \in (IF test_mode.custom # <<>> THEN {test_mode.custom[1]}
                         ELSE RandomQuotes) :
               LET first == from_quote(text)
                   second == from_quote(first.string)
               IN  /\ line' = first.line
                   /\ next_line' = second.line
                   /\ test_mode' = [test_mode EXCEPT !.remaining = second.string]
       ELSE /\ line' \in NewLines
            /\ next_line' \in NewLines
            /\ UNCHANGED test_mode

\* kbin() on KeyCode::Tab
kbin_Tab ==
    /\ reset
    /\ last_op' = "reset"
    /\ UNCHANGED <<running, show_final_score, clock>>

\* kbin() on KeyCode::Tab, then the rest of the iteration
Tab ==
    /\ pc = "loop"
    /\ kbin_Tab
    /\ end_of_iteration

\* kbin() on any other key, or on an event that is not a key (a resize)
kbin_OtherEvent ==
    /\ last_op' = "key"
    /\ UNCHANGED <<running, show_final_score, previous_line, line, next_line,
                   test_mode, _word_count, instant, clock, rotated>>

\* kbin() on any other key or event, then the rest of the iteration
OtherEvent ==
    /\ pc = "loop"
    /\ kbin_OtherEvent
    /\ end_of_iteration

\* kbin() when event::poll times out: time has passed and no event is read
kbin_PollTimeout ==
    /\ clock < MaxClock
    /\ clock' = clock + 1
    /\ last_op' = "key"
    /\ UNCHANGED <<running, show_final_score, previous_line, line, next_line,
                   test_mode, _word_count, instant, rotated>>

\* kbin() on a poll timeout, then the rest of the iteration
PollTimeout ==
    /\ pc = "loop"
    /\ kbin_PollTimeout
    /\ end_of_iteration

Next ==
    \/ \E ch \in Chars : Char(ch)
    \/ Backspace
    \/ Esc
    \/ Tab
    \/ OtherEvent
    \/ PollTimeout

Spec == Init /\ [][Next]_vars

\* ------------------------------------------------------------------------
\* Failing terminal calls and a failing text source
\* ------------------------------------------------------------------------

\* what kbin() does to the session on any event it can read
kbin_any ==
    \/ \E ch \in Chars : kbin_Char(ch)
    \/ kbin_Backspace
    \/ kbin_Esc
    \/ kbin_Tab
    \/ kbin_OtherEvent
    \/ kbin_PollTimeout

\* run() returns through a `?`: nothing after it runs, neither
\* disable_raw_mode() nor the final score
run_fails ==
    /\ pc' = "failed"
    /\ printed' = <<>>
    /\ raw_mode' = raw_mode

\* event::poll or event::read returns Err in kbin(): no event is applied
KbinError ==
    /\ pc = "loop"
    /\ UNCHANGED <<session, clock, rotated, last_op>>
    /\ run_fails

\* kbin() applies an event and the redraw() after it returns Err
RedrawError ==
    /\ pc = "loop"
    /\ kbin_any
    /\ run_fails

\* the loop is left and the clear() after it returns Err
ClearError ==
    /\ pc = "loop"
    /\ kbin_any
    /\ mode_break' \/ ~running'
    /\ run_fails

\* kbin() on KeyCode::Tab in quote mode without a custom quote when the
\* quote cannot be fetched: reset() has cleared its first fields and
\* random_quote() ends the process
QuoteError ==
    /\ pc = "loop"
    /\ test_mode.kind = "QuoteMode"
    /\ test_mode.custom = <<>>
    /\ previous_line' = empty
    /\ _word_count' = 0
    /\ instant' = <<>>
    /\ rotated' = <<>>
    /\ last_op' = "reset"
    /\ pc' = "aborted"
    /\ UNCHANGED <<running, show_final_score, line, next_line, test_mode,
                   clock, printed, raw_mode>>

NextIO ==
    \/ Next
    \/ KbinError
    \/ RedrawError
    \/ ClearError
    \/ QuoteError

SpecIO == Init /\ [][NextIO]_vars

\* ------------------------------------------------------------------------
\* A Line driven alone
\* ------------------------------------------------------------------------

\* the characters typed into a Line driven alone
LineKeys == {"a", "b", SPACE, WIDE}

\* the expected texts of the Lines driven alone: Line::empty(), "a b",
\* "ab a" and a text with a two-byte character
LineTexts == {<<>>, <<"a", SPACE, "b">>, <<"a", "b", SPACE, "a">>,
              <<WIDE, SPACE, "b">>}

\* a Line right after construction; no session runs
InitLine ==
    /\ line \in {[buffer |-> <<>>, expected |-> e] : e \in LineTexts}
    /\ last_op = "new"
    /\ pc = "line"
    /\ running = TRUE
    /\ show_final_score = TRUE
    /\ previous_line = empty
    /\ next_line = empty
    /\ test_mode = WordCount(0)
    /\ _word_count = 0
    /\ instant = <<>>
    /\ clock = 0
    /\ printed = <<>>
    /\ raw_mode = FALSE
    /\ rotated = <<>>

\* line.add_char(ch)
LineAddChar(ch) ==
    /\ pc = "line"
    /\ Len(line.buffer) < Len(line.expected) + MaxOver
    /\ line' = add_char(line, ch)
    /\ last_op' = "add_char"
    /\ UNCHANGED <<running, show_final_score, previous_line, next_line,
                   test_mode, _word_count, instant, clock, pc, printed,
                   raw_mode, rotated>>

\* line.backspace()
LineBackspace ==
    /\ pc = "line"
    /\ line' = backspace(line)
    /\ last_op' = "backspace"
    /\ UNCHANGED <<running, show_final_score, previous_line, next_line,
                   test_mode, _word_count, instant, clock, pc, printed,
                   raw_mode, rotated>>

NextLine ==
    \/ \E ch \in LineKeys : LineAddChar(ch)
    \/ LineBackspace

SpecLine == InitLine /\ [][NextLine]_vars

\* ------------------------------------------------------------------------
\* Properties
\* ------------------------------------------------------------------------

\* the first n characters of a string
prefix(s, n) == SubSeq(s, 1, n)

\* C1: in word-count mode an iteration leaves the loop exactly when, at its
\* end, the cumulative count plus the current line's count has reached the
\* target (or the user quit); so the loop goes on only below the target, and
\* a printed total is at least the target.
C1_WordCountStop ==
    [][ (test_mode.kind = "WordCount" /\ pc = "loop") =>
          /\ test_mode' = test_mode
          /\ pc' = "exited" <=>
                (TypingTest_word_count' >= test_mode.words \/ ~running')
          /\ pc' = "loop" => TypingTest_word_count' < test_mode.words
          /\ printed' # <<>> =>
                /\ printed'[1] = TypingTest_word_count'
                /\ printed'[1] >= test_mode.words ]_vars

\* C1 witness: a word-count session stopped by its mode on the second line
C1_Witness ==
    /\ test_mode.kind = "WordCount"
    /\ pc = "exited" /\ running
    /\ rotated # <<>>
    /\ printed # <<>> /\ printed[1] >= test_mode.words

\* C2 as claimed: with target 2, once the first two words have been typed
\* exactly, up to the last letter of the second word, the session is still
\* running; it stops only with the second space.
C2_StopsAfterSecondSpace ==
    ( /\ test_mode = WordCount(2)
      /\ running
      /\ rotated = <<>>
      /\ line.buffer = prefix(line.expected, 3) )
    => pc = "loop"

\* C2 amended: with target 2, once the first word and its space have been
\* typed exactly the session is still running, and once the last letter of
\* the second word has been typed it has stopped, before the second space,
\* with a reported word count of 2.
C2_StopsAtSecondWord ==
    ( /\ test_mode = WordCount(2)
      /\ running
      /\ rotated = <<>> )
    => /\ line.buffer = prefix(line.expected, 2) => pc = "loop"
       /\ line.buffer = prefix(line.expected, 3) =>
             pc = "exited" /\ printed = <<2>>

\* C2 witness: the session stopped by the last letter of the second word
C2_Witness ==
    /\ test_mode = WordCount(2)
    /\ running /\ pc = "exited"
    /\ line.buffer = prefix(line.expected, 3)
    /\ printed = <<2>>

\* C3: only a character key starts the timer, every character key leaves it
\* started, and in time-limit mode an iteration that ends with the timer
\* not started leaves the loop only on a quit, whatever the clock shows.
C3_TimerGating ==
    [][ /\ (instant = <<>> /\ instant' # <<>>) => \E ch \in Chars : Char(ch)
        /\ (\E ch \in Chars : Char(ch)) => instant' # <<>>
        /\ (test_mode.kind = "TimeLimit" /\ pc = "loop" /\ instant' = <<>>) =>
              (pc' = "exited" <=> ~running') ]_vars

\* C3 witness: a time-limit session still looping with no timer although the
\* clock has passed the limit
C3_Witness ==
    /\ test_mode.kind = "TimeLimit"
    /\ instant = <<>>
    /\ clock >= test_mode.seconds
    /\ pc = "loop"

\* the words of a text as the claims count them: the non-empty pieces
\* between whitespace
whitespace_words(s) == SelectSeq(split(s), LAMBDA w : w # <<>>)

\* the words from the a-th to the b-th of a sequence of words (none if a > b)
words_from_to(w, a, b) == SubSeq(w, a, IF Len(w) < b THEN Len(w) ELSE b)

\* the lines of the window
window == {previous_line, line, next_line}

\* C4 as claimed: in quote mode an iteration leaves the loop exactly when at
\* its end current and next are both done (or the user quit); and for a
\* custom quote of at most LINE_LEN words the first line's expected is the
\* whole quote, the next line's expected is empty, and the session has
\* stopped, with no rotation, as soon as the first line is done.
C4_QuoteStop ==
    [][ (test_mode.kind = "QuoteMode" /\ pc = "loop") =>
          /\ pc' = "exited" <=>
                ((done(line') /\ done(next_line')) \/ ~running')
          /\ ( /\ test_mode'.custom # <<>>
               /\ rotated' = <<>>
               /\ Len(whitespace_words(test_mode'.custom[1])) <= LINE_LEN )
             => /\ line'.expected = test_mode'.custom[1]
                /\ next_line'.expected = <<>>
                /\ done(line') => pc' = "exited" ]_vars

\* C5: a space typed while current is done rotates the lines and is put in
\* no buffer; every other character is appended to current's buffer and
\* nothing rotates.
C5_CharDispatch ==
    [][ \A ch \in Chars : Char(ch) =>
          IF ch = SPACE /\ done(line)
          THEN /\ Len(rotated') = Len(rotated) + 1
               /\ previous_line' = line
               /\ line'.buffer = <<>>
               /\ next_line'.buffer = <<>>
          ELSE /\ line' = [buffer |-> line.buffer \o <<ch>>,
                           expected |-> line.expected]
               /\ rotated' = rotated
               /\ previous_line' = previous_line
               /\ next_line' = next_line
               /\ _word_count' = _word_count
               /\ test_mode' = test_mode ]_vars

\* C5 witness: after a rotation by a space on a done line, the new current
\* line holds a wrong space at its start and a character typed past its end
C5_Witness ==
    /\ rotated # <<>>
    /\ line.expected # <<>>
    /\ Len(line.buffer) > Len(line.expected)
    /\ line.buffer[1] = SPACE
    /\ line.buffer[Len(line.buffer)] # SPACE

\* C6: a rotation makes previous the line that was current, buffer included,
\* makes current the line that was next, and makes next a new line with an
\* empty buffer: consumed from remaining in quote mode, generated otherwise.
C6_RotationWindow ==
    [][ Len(rotated') = Len(rotated) + 1 =>
          /\ previous_line' = line
          /\ line' = next_line
          /\ line'.buffer = <<>>
          /\ next_line'.buffer = <<>>
          /\ IF test_mode.kind = "QuoteMode"
             THEN /\ next_line'.expected =
                        join(take(split(test_mode.remaining), LINE_LEN))
                  /\ test_mode'.remaining =
                        join(rest_after(split(test_mode.remaining), LINE_LEN))
                  /\ test_mode'.custom = test_mode.custom
             ELSE /\ next_line' \in NewLines
                  /\ test_mode' = test_mode ]_vars

\* C6 witness: right after a rotation, previous holds the typed line
C6_Witness ==
    /\ pc = "loop"
    /\ rotated # <<>>
    /\ previous_line.buffer # <<>>
    /\ previous_line.expected = rotated[Len(rotated)].expected
    /\ line.buffer = <<>>
    /\ line.expected # <<>>

RECURSIVE sum_counts(_)
\* the sum of the word counts of the rotated-out lines
sum_counts(r) == IF r = <<>> THEN 0 ELSE Head(r).count + sum_counts(Tail(r))

\* C7: the cumulative word count is the sum of the rotated-out lines' word
\* counts as they were when each was rotated out; a rotation adds the
\* current line's count once, a reset zeroes it, nothing else changes it.
C7_WordAccounting ==
    [][ /\ _word_count' = sum_counts(rotated')
        /\ IF Len(rotated') = Len(rotated) + 1
           THEN /\ rotated'[Len(rotated')].count = word_count(line)
                /\ rotated'[Len(rotated')].count = word_count(previous_line')
                /\ _word_count' = _word_count + word_count(line)
           ELSE IF rotated' = rotated
           THEN _word_count' = _word_count
           ELSE rotated' = <<>> /\ _word_count' = 0 ]_vars

\* C7 witness: two lines rotated out, both with words counted
C7_Witness ==
    /\ Len(rotated) = 2
    /\ rotated[1].count > 0
    /\ rotated[2].count > 0
    /\ _word_count = rotated[1].count + rotated[2].count

\* C8 as claimed: a line whose expected is empty counts no word, and adds
\* nothing to the total when it is the current line.
C8_EmptyExpectedCountsZero ==
    /\ \A l \in window : l.expected = <<>> => word_count(l) = 0
    /\ line.expected = <<>> => TypingTest_word_count = _word_count

\* C9 as claimed: done() compares the numbers of characters of buffer and
\* expected, and index() is the number of characters of buffer.
C9_DoneByCharacters ==
    \A l \in window :
        /\ done(l) <=> char_len(l.buffer) >= char_len(l.expected)
        /\ index(l) = char_len(l.buffer)

\* C10 as claimed: from a custom quote of K whitespace-separated words the
\* first line takes the first min(LINE_LEN, K) words joined by single
\* spaces, the second line the next LINE_LEN at most, and remaining is left
\* with the words after those, in order, joined by single spaces.
C10_FromQuoteSplit ==
    ( /\ test_mode.kind = "QuoteMode"
      /\ test_mode.custom # <<>>
      /\ rotated = <<>> )
    => LET w == whitespace_words(test_mode.custom[1])
       IN  /\ line.expected = join(words_from_to(w, 1, LINE_LEN))
           /\ next_line.expected =
                 join(words_from_to(w, LINE_LEN + 1, 2 * LINE_LEN))
           /\ test_mode.remaining =
                 join(words_from_to(w, 2 * LINE_LEN + 1, Len(w)))

\* C11: on every way the session ends -- the mode condition, Quit, or an
\* error of the terminal or of the text source -- raw mode has been left
C11_RawModeRestored ==
    pc # "loop" => ~raw_mode

\* the three texts a new quote session starts from: the first LINE_LEN
\* words, the next LINE_LEN words and the rest
start_of_quote(q) ==
    LET w == split(q)
        w2 == split(join(rest_after(w, LINE_LEN)))
    IN  [line |-> join(take(w, LINE_LEN)),
         next_line |-> join(take(w2, LINE_LEN)),
         remaining |-> join(rest_after(w2, LINE_LEN))]

\* C12: a Reset leaves previous empty, the cumulative count 0, the timer
\* cleared, current and next with empty buffers regenerated from the active
\* source, and the mode and its target unchanged; with a custom quote the
\* lines and remaining are those of session creation
C12_ResetToStart ==
    [][Tab =>
        /\ previous_line' = empty
        /\ _word_count' = 0
        /\ instant' = <<>>
        /\ line'.buffer = <<>>
        /\ next_line'.buffer = <<>>
        /\ IF test_mode.kind = "QuoteMode"
           THEN /\ test_mode'.kind = "QuoteMode"
                /\ test_mode'.custom = test_mode.custom
                /\ \E q \in (IF test_mode.custom # <<>>
                              THEN {test_mode.custom[1]} ELSE RandomQuotes) :
                       /\ line'.expected = start_of_quote(q).line
                       /\ next_line'.expected = start_of_quote(q).next_line
                       /\ test_mode'.remaining = start_of_quote(q).remaining
           ELSE /\ test_mode' = test_mode
                /\ line' \in NewLines
                /\ next_line' \in NewLines
    ]_vars

\* a Reset has just been applied to a custom quote longer than two lines
C12_Witness ==
    /\ last_op = "reset"
    /\ test_mode.kind = "QuoteMode"
    /\ test_mode.custom # <<>>
    /\ test_mode.remaining # <<>>
    /\ clock > 0

\* C13: a Quit sets running to false and suppresses the final score, the
\* loop is left in that same iteration and no event is applied after it;
\* no score is printed after a Quit even when the mode condition holds too,
\* and a score is printed only when the session ended by its mode condition
C13_QuitSuppressesScore ==
    [][ /\ pc = "loop"
        /\ Esc => /\ ~running'
                  /\ ~show_final_score'
                  /\ pc' = "exited"
                  /\ printed' = <<>>
        /\ printed' # <<>> => /\ pc' = "exited"
                              /\ running'
                              /\ mode_break'
    ]_vars

\* the session was ended by a Quit after the timer had started, and nothing
\* was printed
C13_Witness ==
    /\ pc = "exited"
    /\ ~running
    /\ instant # <<>>
    /\ TypingTest_word_count > 0
    /\ printed = <<>>

\* C14: whenever the score line is drawn while the timer has not started,
\* the words-per-minute value is not the result of a division by zero
C14_WpmGuarded ==
    (pc = "loop" /\ instant = <<>>) => draw_score.wpm.kind = "finite"

\* C15 as stated: in quote mode every rotation leaves remaining strictly
\* shorter, and no step other than a rotation or a Reset changes remaining
C15_RemainingShrinks ==
    [][ test_mode.kind = "QuoteMode" =>
          /\ Len(rotated') = Len(rotated) + 1 =>
                Len(test_mode'.remaining) < Len(test_mode.remaining)
          /\ (Len(rotated') # Len(rotated) + 1 /\ last_op' # "reset") =>
                test_mode'.remaining = test_mode.remaining ]_vars

\* C15 amended: in quote mode a rotation leaves remaining strictly shorter
\* when remaining was not empty and leaves it empty when it was empty, and
\* no step other than a rotation or a Reset changes remaining
C15_RemainingNeverGrows ==
    [][ test_mode.kind = "QuoteMode" =>
          /\ Len(rotated') = Len(rotated) + 1 =>
                IF test_mode.remaining # <<>>
                THEN /\ Len(test_mode'.remaining) < Len(test_mode.remaining)
                     /\ byte_len(test_mode'.remaining)
                            < byte_len(test_mode.remaining)
                ELSE test_mode'.remaining = <<>>
          /\ (Len(rotated') # Len(rotated) + 1 /\ last_op' # "reset") =>
                test_mode'.remaining = test_mode.remaining ]_vars

\* one rotation of a custom quote longer than two lines has consumed the
\* rest of the quote into next
C15_Witness ==
    /\ test_mode.kind = "QuoteMode"
    /\ test_mode.custom # <<>>
    /\ Len(split(test_mode.custom[1])) > 2 * LINE_LEN
    /\ Len(rotated) = 1
    /\ next_line.expected # <<>>
    /\ test_mode.remaining = <<>>

\* e is not empty and is made of words separated by single spaces
single_spaced(e) ==
    /\ e # <<>>
    /\ e[1] # SPACE
    /\ e[Len(e)] # SPACE
    /\ \A i \in 1..(Len(e) - 1) : ~(e[i] = SPACE /\ e[i + 1] = SPACE)

\* the positions of e where a word starts
word_starts(e) ==
    {i \in 1..Len(e) : e[i] # SPACE /\ (i = 1 \/ e[i - 1] = SPACE)}

\* the position where the word of e that starts at s ends
word_end(e, s) ==
    CHOOSE j \in s..Len(e) :
        /\ \A k \in s..j : e[k] # SPACE
        /\ j = Len(e) \/ e[j + 1] = SPACE

\* the buffer of l reaches the end of the word of expected that starts at s
\* and agrees with expected on that word and on the space before it
credited(l, s) ==
    /\ Len(l.buffer) >= word_end(l.expected, s)
    /\ \A k \in s..word_end(l.expected, s) : l.buffer[k] = l.expected[k]
    /\ s > 1 => l.buffer[s - 1] = l.expected[s - 1]

\* C16: for a non-empty expected of single-space-separated words,
\* word_count() is the number of words of expected that the buffer covers
\* to their end and matches on every character and on the space before them
C16_WordCountCredits ==
    single_spaced(line.expected) =>
        word_count(line) =
            Cardinality({s \in word_starts(line.expected) : credited(line, s)})

\* a character was appended beyond an expected of two words whose separator
\* was mistyped and whose second word was typed right: only the first word
\* counts
C16_Witness ==
    /\ last_op = "add_char"
    /\ single_spaced(line.expected)
    /\ Len(line.buffer) > Len(line.expected)
    /\ \E p \in 2..(Len(line.expected) - 1) :
          /\ line.expected[p] = SPACE
          /\ line.buffer[p] # SPACE
          /\ \A k \in 1..Len(line.expected) :
                k # p => line.buffer[k] = line.expected[k]
    /\ word_count(line) = 1

\* the buffer of l is a prefix of its expected
correct_prefix(l) ==
    /\ Len(l.buffer) <= Len(l.expected)
    /\ l.buffer = prefix(l.expected, Len(l.buffer))

\* C17: for every line, appending a character that keeps the buffer a
\* correct prefix of expected never lowers word_count(), and word_count()
\* never exceeds the number of space-delimited words of expected
C17_CountMonotoneBounded ==
    [][ /\ word_count(line) <= Cardinality(word_starts(line.expected))
        /\ word_count(line') <= Cardinality(word_starts(line'.expected))
        /\ (last_op' = "add_char" /\ correct_prefix(line')) =>
              word_count(line') >= word_count(line) ]_vars

\* C18: a character that does not rotate and a Backspace change nothing of
\* the session but current's buffer, and the timer on the first character;
\* any other event changes nothing of the session; next's buffer is always
\* empty; and expected texts only move with their line on a rotation or are
\* replaced on a Reset
C18_OnlyCurrentIsWritten ==
    [][ /\ (Backspace \/ (rotated' = rotated /\ \E ch \in Chars : Char(ch))) =>
            /\ UNCHANGED <<running, show_final_score, previous_line,
                           next_line, test_mode, _word_count>>
            /\ line'.expected = line.expected
            /\ instant' = IF instant = <<>> /\ ~Backspace
                          THEN <<clock>> ELSE instant
        /\ OtherEvent => UNCHANGED session
        /\ next_line.buffer = <<>>
        /\ next_line'.buffer = <<>>
        /\ IF Len(rotated') = Len(rotated) + 1
           THEN /\ previous_line'.expected = line.expected
                /\ line'.expected = next_line.expected
           ELSE last_op' # "reset" =>
                   /\ previous_line'.expected = previous_line.expected
                   /\ line'.expected = line.expected
                   /\ next_line'.expected = next_line.expected ]_vars

\* after a rotation the user has typed into the new current line and made
\* a mistake there, while previous keeps what was typed into it
C18_Witness ==
    /\ pc = "loop"
    /\ last_op = "key"
    /\ rotated # <<>>
    /\ previous_line.buffer # <<>>
    /\ previous_line.expected = rotated[Len(rotated)].expected
    /\ line.buffer # <<>>
    /\ ~correct_prefix(line)
    /\ next_line.buffer = <<>>
    /\ instant # <<>>

\* C19: backspace() removes the last character of the buffer and nothing
\* else, so it undoes add_char(ch) for every character, a space and a
\* two-byte character included; on an empty buffer it changes nothing
C19_BackspaceUndoesAddChar ==
    [][ /\ \A ch \in LineKeys :
              LineAddChar(ch) => /\ backspace(line') = line
                                 /\ index(line') = index(line) + len_utf8(ch)
        /\ LineBackspace =>
              /\ line'.expected = line.expected
              /\ IF line.buffer = <<>>
                 THEN line'.buffer = <<>>
                 ELSE /\ line'.buffer = prefix(line.buffer, Len(line.buffer) - 1)
                      /\ add_char(line', line.buffer[Len(line.buffer)]) = line
        /\ line.buffer = <<>> => backspace(backspace(line)) = line ]_vars

\* a backspace has just removed a character that followed a space and a
\* two-byte character
C19_Witness ==
    /\ last_op = "backspace"
    /\ Len(line.buffer) >= 2
    /\ line.buffer[Len(line.buffer)] = WIDE
    /\ line.buffer[Len(line.buffer) - 1] = SPACE

\* the words of the lines rotated out, oldest first
RECURSIVE rotated_words(_)
rotated_words(r) ==
    IF r = <<>> THEN <<>>
    ELSE whitespace_words(Head(r).expected) \o rotated_words(Tail(r))

\* C20: in quote mode with a quote of single-space-separated words, the
\* words of the lines rotated out, of current, of next and of remaining are
\* the words of the quote in their order; and when the session stops by the
\* quote-mode condition remaining is empty
C20_QuoteWordsConserved ==
    /\ (/\ test_mode.kind = "QuoteMode"
        /\ test_mode.custom # <<>>
        /\ single_spaced(test_mode.custom[1])) =>
          rotated_words(rotated)
            \o whitespace_words(line.expected)
            \o whitespace_words(next_line.expected)
            \o whitespace_words(test_mode.remaining)
          = whitespace_words(test_mode.custom[1])
    /\ (/\ test_mode.kind = "QuoteMode"
        /\ test_mode.custom # <<>> => single_spaced(test_mode.custom[1])
        /\ pc = "exited"
        /\ running) =>
          test_mode.remaining = <<>>

\* a session on a custom quote longer than two lines has stopped by the
\* quote-mode condition after two rotations
C20_Witness ==
    /\ test_mode.kind = "QuoteMode"
    /\ test_mode.custom # <<>>
    /\ single_spaced(test_mode.custom[1])
    /\ Len(whitespace_words(test_mode.custom[1])) > 2 * LINE_LEN
    /\ pc = "exited"
    /\ running
    /\ Len(rotated) = 2
    /\ done(line)

====
